---------------------------- MODULE Spec2Model ----------------------------
(***************************************************************************)
(* fits-hilltop: Hilltop XML measurements -> FITS observations -> SQS.      *)
(*                                                                         *)
(* Text that the program cuts up (value lines, -site arguments, site       *)
(* labels) is a sequence of lexemes: a lexeme is a separator character     *)
(* (" ", a tab, "=") or a maximal piece of text holding no separator.      *)
(* Text the program only compares (DataSource Name, DateFormat, network,   *)
(* method) is a plain string.                                              *)
(***************************************************************************)
EXTENDS Integers, Sequences, FiniteSets, TLC

VARIABLES
    pc,        \* position of the running routine
    method,    \* -method
    network,   \* -network
    dryrun,    \* -dry-run
    region,    \* -region
    queue,     \* -queue
    Q,         \* main's Q *sqs.Queue
    siteArgs,  \* the -site arguments flag.Parse has still to hand to Set
    sites,     \* HilltopSites.Sites
    files,     \* flag.Args()
    fi,        \* index in files of the file being processed
    h,         \* the decoded document (or NilHilltop)
    obs,       \* the observations returned by Observations
    err,       \* the error returned by the last call
    oi,        \* index in obs of the next message to send
    sent,      \* messages handed to Q.SendMessage, in order
    tz,        \* offset in seconds of the host's local time zone
    meas,      \* the measurement Values is called on
    ret        \* what Values returned

vars == <<pc, method, network, dryrun, region, queue, Q, siteArgs, sites,
          files, fi, h, obs, err, oi, sent, tz, meas, ret>>

----------------------------------------------------------------------------
(* Bounds.                                                                 *)

\* lexemes plus lines of one measurement's value list (Values runs)
MaxValueSize == 6
\* measurements plus value lines of one document (Observations runs)
MaxDocSize == 4
\* lexemes plus arguments of the -site arguments of one command line
MaxFlagSize == 7
\* files on one command line
MaxFiles == 2

----------------------------------------------------------------------------
(* Text.                                                                   *)

SP == " "
TAB == "\t"
EQ == "="

nil == "nil"

\* the empty string
Empty == << >>

RECURSIVE TrimLeft(_, _)
\* strings.TrimLeft(s, cutset) for a one-character cutset
TrimLeft(s, c) ==
    IF s # << >> /\ Head(s) = c THEN TrimLeft(Tail(s), c) ELSE s

\* index of the first sep in s, 0 when there is none
IndexOf(s, sep) ==
    IF \E i \in 1..Len(s) : s[i] = sep
    THEN CHOOSE i \in 1..Len(s) : s[i] = sep /\ \A j \in 1..(i - 1) : s[j] # sep
    ELSE 0

RECURSIVE SplitN(_, _, _)
\* strings.SplitN(s, sep, n) for n > 0: at most n parts, the last one the
\* unsplit remainder
SplitN(s, sep, n) ==
    LET i == IndexOf(s, sep) IN
    IF n = 1 \/ i = 0
    THEN <<s>>
    ELSE <<SubSeq(s, 1, i - 1)>> \o SplitN(SubSeq(s, i + 1, Len(s)), sep, n - 1)

\* strings.Split(s, sep): one part more than there are separators
Split(s, sep) == SplitN(s, sep, Len(s) + 1)

----------------------------------------------------------------------------
(* time.Parse and strconv.ParseFloat on the lexemes of the value lines.    *)

\* day-month-year lexemes that layout 02-Jan-06 accepts -> days since 1970-01-01
DateTokens == [x \in {"27-May-15"} |-> 16582]

\* time lexemes that layout 15:04:05 accepts -> seconds since midnight
TimeTokens == [x \in {"21:30:00", "21:40:00"} |-> IF x = "21:30:00" THEN 77400 ELSE 78000]

\* lexemes strconv.ParseFloat accepts -> the float64, in thousandths
NumberTokens == [x \in {"2.300000", "2.5"} |-> IF x = "2.300000" THEN 2300 ELSE 2500]

\* seconds in a day
DaySeconds == 24 * 3600

\* the civil date-time a date and a time lexeme write down, as seconds
Civil(d, t) == DateTokens[d] * DaySeconds + TimeTokens[t]

\* time.Parse("02-Jan-06 15:04:05", value): a space of the layout takes any
\* run of spaces of the value, every other element must match exactly and
\* nothing may follow.  The layout names no zone, so the result is the civil
\* time read as UTC, with Location UTC, whatever the host's zone.
TimeParse(value) ==
    IF /\ Len(value) >= 3
       /\ value[1] \in DOMAIN DateTokens
       /\ value[Len(value)] \in DOMAIN TimeTokens
       /\ \A i \in 2..(Len(value) - 1) : value[i] = SP
    THEN [t |-> [unix |-> Civil(value[1], value[Len(value)]), loc |-> "UTC"],
          err |-> nil]
    ELSE [t |-> [unix |-> 0, loc |-> "UTC"], err |-> "parsing time"]

\* Time.UTC(): the same instant with Location UTC
UTC(t) == [t EXCEPT !.loc = "UTC"]

\* strconv.ParseFloat(s, 64)
ParseFloat(s) ==
    IF Len(s) = 1 /\ s[1] \in DOMAIN NumberTokens
    THEN [r |-> NumberTokens[s[1]], err |-> nil]
    ELSE [r |-> 0, err |-> "invalid syntax"]

----------------------------------------------------------------------------
(* HilltopMeasurement.Values                                               *)

\* ValueLine splitting the line without stripping its leading spaces
ValueLineUntrimmed(v, dateFormat) ==
    LET parts == Split(v, SP) IN
    IF Len(parts) > 2
    THEN LET p == TimeParse(parts[1] \o <<SP>> \o parts[2])
             f == ParseFloat(parts[3])
         IN  IF p.err # nil THEN [kind |-> "error", err |-> p.err]
             ELSE IF f.err # nil THEN [kind |-> "error", err |-> f.err]
             ELSE [kind |-> "value", value |-> [Timestamp |-> UTC(p.t), Reading |-> f.r]]
    ELSE [kind |-> "skip"]

\* one value line: the parts and what the loop body does with them
ValueLine(v, dateFormat) ==
    LET parts == Split(TrimLeft(v, SP), SP) IN
    IF Len(parts) > 2
    THEN LET p == TimeParse(parts[1] \o <<SP>> \o parts[2])
             t == IF dateFormat = "UTC" THEN UTC(p.t) ELSE p.t
             f == ParseFloat(parts[3])
         IN  IF p.err # nil THEN [kind |-> "error", err |-> p.err]
             ELSE IF f.err # nil THEN [kind |-> "error", err |-> f.err]
             ELSE [kind |-> "value", value |-> [Timestamp |-> t, Reading |-> f.r]]
    ELSE [kind |-> "skip"]

RECURSIVE ValuesFrom(_, _, _)
\* the loop of Values from line i on, values holding the readings so far
ValuesFrom(m, i, values) ==
    IF i > Len(m.Data.Value)
    THEN [values |-> values, err |-> nil]
    ELSE LET l == ValueLine(m.Data.Value[i], m.Data.DateFormat) IN
         CASE l.kind = "error" -> [values |-> values, err |-> l.err]
           [] l.kind = "value" -> ValuesFrom(m, i + 1, Append(values, l.value))
           [] OTHER -> ValuesFrom(m, i + 1, values)

\* func (m *HilltopMeasurement) Values() ([]HilltopValue, error)
Values(m) == ValuesFrom(m, 1, << >>)


----------------------------------------------------------------------------
(* Hilltop.Observations                                                    *)

\* var HilltopUnits = map[string]string{...}
HilltopUnits ==
    [x \in {"Air Temperature", "Wind Chill", "Relative Humidity", "Rainfall",
            "Barometric Pressure", "Wind Direction", "Max Gust", "Average Wind"} |->
        CASE x = "Air Temperature" -> "t"
          [] x = "Wind Chill" -> "wc"
          [] x = "Relative Humidity" -> "rh"
          [] x = "Rainfall" -> "rn"
          [] x = "Barometric Pressure" -> "ap"
          [] x = "Wind Direction" -> "wdir"
          [] x = "Max Gust" -> "wg"
          [] OTHER -> "wm"]

\* msg.Observation{...} as Observations fills it in; Error is 0.0
Observation(net, s, t, meth, v) ==
    [NetworkID |-> net, SiteID |-> s, TypeID |-> t, MethodID |-> meth,
     DateTime |-> v.Timestamp, Value |-> v.Reading, Error |-> 0]

\* AppendValues putting a measurement's observations before the earlier ones
AppendValuesInFront(msgs, values, net, s, t, meth) ==
    [k \in 1..Len(values) |-> Observation(net, s, t, meth, values[k])] \o msgs

\* the inner loop: one observation per reading, appended in order
AppendValues(msgs, values, net, s, t, meth) ==
    msgs \o [k \in 1..Len(values) |-> Observation(net, s, t, meth, values[k])]

\* Measure gathering the values before it looks the names up
MeasureValuesFirst(m, msgs, siteTable, net, meth) ==
    LET r == Values(m) IN
    IF r.err # nil
    THEN [kind |-> "return", msgs |-> msgs, err |-> r.err]
    ELSE IF m.SiteName \notin DOMAIN siteTable
    THEN [kind |-> "continue", msgs |-> msgs]
    ELSE IF m.DataSource.Name \notin DOMAIN HilltopUnits
    THEN [kind |-> "continue", msgs |-> msgs]
    ELSE [kind |-> "continue",
          msgs |-> AppendValues(msgs, r.values, net, siteTable[m.SiteName],
                                HilltopUnits[m.DataSource.Name], meth)]

\* Measure without the tables: the source's names go into the observations
MeasureSourceNames(m, msgs, siteTable, net, meth) ==
    LET r == Values(m) IN
    IF r.err # nil
    THEN [kind |-> "return", msgs |-> msgs, err |-> r.err]
    ELSE [kind |-> "continue",
          msgs |-> msgs \o [k \in 1..Len(r.values) |->
                       Observation(net, m.SiteName, m.DataSource.Name, meth, r.values[k])]]

\* the body of the loop over h.Measurement for one measurement m:
\* skip an unknown site, skip an unknown data source, else gather the values
Measure(m, msgs, siteTable, net, meth) ==
    IF m.SiteName \notin DOMAIN siteTable
    THEN [kind |-> "continue", msgs |-> msgs]
    ELSE IF m.DataSource.Name \notin DOMAIN HilltopUnits
    THEN [kind |-> "continue", msgs |-> msgs]
    ELSE LET r == Values(m) IN
         IF r.err # nil
         THEN [kind |-> "return", msgs |-> msgs, err |-> r.err]
         ELSE [kind |-> "continue",
               msgs |-> AppendValues(msgs, r.values, net,
                                     siteTable[m.SiteName],
                                     HilltopUnits[m.DataSource.Name], meth)]

RECURSIVE ObservationsFrom(_, _, _, _, _, _)
\* the loop of Observations from measurement i on
ObservationsFrom(doc, i, msgs, siteTable, net, meth) ==
    IF i > Len(doc.Measurement)
    THEN [msgs |-> msgs, err |-> nil]
    ELSE LET b == Measure(doc.Measurement[i], msgs, siteTable, net, meth) IN
         IF b.kind = "return"
         THEN [msgs |-> b.msgs, err |-> b.err]
         ELSE ObservationsFrom(doc, i + 1, b.msgs, siteTable, net, meth)

\* func (h *Hilltop) Observations(sites *HilltopSites, network, method string)
Observations(doc, siteTable, net, meth) ==
    ObservationsFrom(doc, 1, << >>, siteTable, net, meth)

----------------------------------------------------------------------------
(* HilltopSites                                                            *)

\* NewHilltopSites(): an empty map
NewHilltopSites == [x \in {} |-> Empty]

\* s.Sites[k] = v
MapPut(table, k, v) ==
    [x \in (DOMAIN table) \cup {k} |-> IF x = k THEN v ELSE table[x]]

\* Set cutting the argument at every "=" and keeping the first two parts
SetSplitAll(table, arg) ==
    LET parts == Split(arg, EQ) IN
    IF Len(parts) < 2
    THEN [Sites |-> table, err |-> "invalid format: expecting <string>=<string>"]
    ELSE [Sites |-> MapPut(table, parts[1], parts[2]), err |-> nil]

\* func (s *HilltopSites) Set(arg string) error
Set(table, arg) ==
    LET parts == SplitN(arg, EQ, 2) IN
    IF Len(parts) < 2
    THEN [Sites |-> table, err |-> "invalid format: expecting <string>=<string>"]
    ELSE [Sites |-> MapPut(table, parts[1], parts[2]), err |-> nil]

----------------------------------------------------------------------------
(* DecodeHilltopFile                                                       *)

\* a nil *Hilltop
NilHilltop == [isNil |-> TRUE]

\* a nil *sqs.Queue
NilQueue == [isNil |-> TRUE]

\* a file is missing (os.Open fails), malformed (xml Decode fails) or holds
\* the document xml Decode produces from it
DecodeHilltopFile(file) ==
    IF file.kind = "missing"
    THEN [h |-> NilHilltop, err |-> nil]
    ELSE IF file.kind = "malformed"
    THEN [h |-> NilHilltop, err |-> "XML syntax error"]
    ELSE [h |-> file.doc, err |-> nil]

\* msg.Observation.Encode(): the observation as a JSON message
Encode(o) == [json |-> o]

----------------------------------------------------------------------------
(* main                                                                    *)

Fatal == "log.Fatalf"
FlagExit == "flag: exit 2"
PanicNilHilltop == "panic: nil *Hilltop"
PanicNilQueue == "panic: nil *sqs.Queue"
Terminal == {"done", Fatal, FlagExit, PanicNilHilltop, PanicNilQueue}

\* flag.Parse handing one -site argument to sites.Set; a Set error makes the
\* flag package print the usage and exit
FlagSet ==
    /\ pc = "flags"
    /\ siteArgs # << >>
    /\ LET r == Set(sites, Head(siteArgs)) IN
        /\ err' = r.err
        /\ sites' = r.Sites
        /\ IF r.err # nil
           THEN pc' = FlagExit /\ UNCHANGED siteArgs
           ELSE pc' = "flags" /\ siteArgs' = Tail(siteArgs)
    /\ UNCHANGED <<method, network, dryrun, region, queue, Q, files, fi, h,
                   obs, oi, sent, tz, meas, ret>>

\* check required arguments
CheckRequired ==
    /\ pc = "flags"
    /\ siteArgs = << >>
    /\ pc' = IF method = "" \/ network = "" THEN Fatal ELSE "setup"
    /\ UNCHANGED <<method, network, dryrun, region, queue, Q, siteArgs, sites,
                   files, fi, h, obs, err, oi, sent, tz, meas, ret>>

\* setup aws sqs queue: nothing under -dry-run; else the region and queue
\* from the flags or the environment, aws.GetAuth and S.GetQueue
SetupQueue ==
    /\ pc = "setup"
    /\ IF dryrun
       THEN pc' = "loop" /\ UNCHANGED <<region, queue, Q, err>>
       ELSE \E envRegion \in {"", "ap-southeast-2"}, envQueue \in {"", "fits"},
               authErr \in {nil, "no auth"}, queueErr \in {nil, "no queue"} :
              LET r == IF region = "" THEN envRegion ELSE region
                  q == IF queue = "" THEN envQueue ELSE queue
              IN  IF r = ""
                  THEN pc' = Fatal /\ region' = r /\ UNCHANGED <<queue, Q, err>>
                  ELSE IF q = ""
                  THEN pc' = Fatal /\ region' = r /\ queue' = q /\ UNCHANGED <<Q, err>>
                  ELSE IF authErr # nil
                  THEN pc' = Fatal /\ region' = r /\ queue' = q /\ err' = authErr
                       /\ UNCHANGED Q
                  ELSE /\ region' = r
                       /\ queue' = q
                       /\ err' = queueErr
                       /\ Q' = IF queueErr # nil THEN NilQueue
                               ELSE [isNil |-> FALSE, name |-> q, region |-> r]
                       /\ pc' = IF queueErr # nil THEN Fatal ELSE "loop"
    /\ UNCHANGED <<method, network, dryrun, siteArgs, sites, files, fi, h, obs,
                   oi, sent, tz, meas, ret>>

\* the next file of the loop: decode hilltop xml file
DecodeFile ==
    /\ pc = "loop"
    /\ fi < Len(files)
    /\ LET r == DecodeHilltopFile(files[fi + 1]) IN
        /\ fi' = fi + 1
        /\ h' = r.h
        /\ err' = r.err
        /\ pc' = IF r.err # nil THEN Fatal ELSE "observe"
    /\ UNCHANGED <<method, network, dryrun, region, queue, Q, siteArgs, sites,
                   files, obs, oi, sent, tz, meas, ret>>

\* Observe going on to send what was gathered before an error
ObserveKeepGoing ==
    /\ pc = "observe"
    /\ IF h = NilHilltop
       THEN pc' = PanicNilHilltop /\ UNCHANGED <<obs, err, oi>>
       ELSE LET r == Observations(h, sites, network, method) IN
            /\ obs' = r.msgs
            /\ err' = r.err
            /\ oi' = 1
            /\ pc' = "send"
    /\ UNCHANGED <<method, network, dryrun, region, queue, Q, siteArgs, sites,
                   files, fi, h, sent, tz, meas, ret>>

\* h.Observations(sites, network, method): a nil h panics at h.Measurement
Observe ==
    /\ pc = "observe"
    /\ IF h = NilHilltop
       THEN pc' = PanicNilHilltop /\ UNCHANGED <<obs, err, oi>>
       ELSE LET r == Observations(h, sites, network, method) IN
            /\ obs' = r.msgs
            /\ err' = r.err
            /\ oi' = 1
            /\ pc' = IF r.err # nil THEN Fatal ELSE "send"
    /\ UNCHANGED <<method, network, dryrun, region, queue, Q, siteArgs, sites,
                   files, fi, h, sent, tz, meas, ret>>

\* SendMessage without the test of -dry-run
SendMessageAlways ==
    /\ pc = "send"
    /\ oi <= Len(obs)
    /\ \E encErr \in {nil, "encode"}, sendErr \in {nil, "send"} :
        IF encErr # nil
        THEN pc' = Fatal /\ err' = encErr /\ UNCHANGED <<oi, sent>>
        ELSE IF Q.isNil
        THEN pc' = PanicNilQueue /\ err' = nil /\ UNCHANGED <<oi, sent>>
        ELSE /\ sent' = Append(sent, [file |-> fi, body |-> Encode(obs[oi])])
             /\ err' = sendErr
             /\ IF sendErr # nil
                THEN pc' = Fatal /\ UNCHANGED oi
                ELSE pc' = "send" /\ oi' = oi + 1
    /\ UNCHANGED <<method, network, dryrun, region, queue, Q, siteArgs, sites,
                   files, fi, h, obs, tz, meas, ret>>

\* one turn of the loop over obs: Encode, then Q.SendMessage unless -dry-run
SendMessage ==
    /\ pc = "send"
    /\ oi <= Len(obs)
    /\ \E encErr \in {nil, "encode"}, sendErr \in {nil, "send"} :
        IF encErr # nil
        THEN pc' = Fatal /\ err' = encErr /\ UNCHANGED <<oi, sent>>
        ELSE IF dryrun
        THEN pc' = "send" /\ err' = nil /\ oi' = oi + 1 /\ UNCHANGED sent
        ELSE IF Q.isNil
        THEN pc' = PanicNilQueue /\ err' = nil /\ UNCHANGED <<oi, sent>>
        ELSE /\ sent' = Append(sent, [file |-> fi, body |-> Encode(obs[oi])])
             /\ err' = sendErr
             /\ IF sendErr # nil
                THEN pc' = Fatal /\ UNCHANGED oi
                ELSE pc' = "send" /\ oi' = oi + 1
    /\ UNCHANGED <<method, network, dryrun, region, queue, Q, siteArgs, sites,
                   files, fi, h, obs, tz, meas, ret>>

\* the loop over obs is over: on to the next file
FileDone ==
    /\ pc = "send"
    /\ oi > Len(obs)
    /\ pc' = "loop"
    /\ UNCHANGED <<method, network, dryrun, region, queue, Q, siteArgs, sites,
                   files, fi, h, obs, err, oi, sent, tz, meas, ret>>

\* the loop over the files is over: main returns
Return ==
    /\ pc = "loop"
    /\ fi = Len(files)
    /\ pc' = "done"
    /\ UNCHANGED <<method, network, dryrun, region, queue, Q, siteArgs, sites,
                   files, fi, h, obs, err, oi, sent, tz, meas, ret>>

Next ==
    \/ FlagSet
    \/ CheckRequired
    \/ SetupQueue
    \/ DecodeFile
    \/ Observe
    \/ SendMessage
    \/ FileDone
    \/ Return

----------------------------------------------------------------------------
(* Calls of Values and of Observations on their own.                       *)

CallValues ==
    /\ pc = "Values"
    /\ ret' = Values(meas)
    /\ pc' = "Values returned"
    /\ UNCHANGED <<method, network, dryrun, region, queue, Q, siteArgs, sites,
                   files, fi, h, obs, err, oi, sent, tz, meas>>

NextValues == CallValues

CallObservations ==
    /\ pc = "Observations"
    /\ LET r == Observations(h, sites, network, method) IN
        /\ obs' = r.msgs
        /\ err' = r.err
    /\ pc' = "Observations returned"
    /\ UNCHANGED <<method, network, dryrun, region, queue, Q, siteArgs, sites,
                   files, fi, h, oi, sent, tz, meas, ret>>

NextObservations == CallObservations

----------------------------------------------------------------------------
(* Inputs.                                                                 *)

\* all sequences over S of length at most n
SeqsUpTo(S, n) == UNION {[1..k -> S] : k \in 0..n}

RECURSIVE TextLists(_, _)
\* all lists of texts over alphabet whose lexemes plus texts number at most n
TextLists(alphabet, n) ==
    IF n <= 0 THEN {<< >>}
    ELSE {<< >>} \cup
         UNION {{<<l>> \o rest : rest \in TextLists(alphabet, n - 1 - Len(l))} :
                l \in SeqsUpTo(alphabet, n - 1)}

Measurement(site, name, format, value) ==
    [SiteName |-> site, DataSource |-> [Name |-> name],
     Data |-> [DateFormat |-> format, Value |-> value]]

Document(ms) == [Agency |-> "Agency", Measurement |-> ms]

\* the lexemes of value lines: separators, a date, a time, a number
LineAlphabet == {SP, TAB, "27-May-15", "21:30:00", "2.300000"}

\* the README's line, a second reading, a line of two tokens, a line whose
\* number does not parse, a line whose date does not parse
ReadmeLine == <<SP, "27-May-15", SP, "21:30:00", SP, "2.300000">>
SecondLine == <<"27-May-15", SP, "21:40:00", SP, "2.5">>
ShortLine == <<"27-May-15", SP, "21:30:00">>
BadNumberLine == <<"27-May-15", SP, "21:30:00", SP, "not-a-number">>
BadDateLine == <<"31-Feb-15", SP, "21:30:00", SP, "2.5">>
SampleLines == {ReadmeLine, SecondLine, ShortLine, BadNumberLine, BadDateLine}

\* site, data source and date format of the sample measurements: two that
\* the tables know, an unknown site, an unknown data source
Headers ==
    {[site |-> <<"Place">>, name |-> "Air Temperature", format |-> "UTC"],
     [site |-> <<"Lake">>, name |-> "Rainfall", format |-> "Local"],
     [site |-> <<"Nowhere">>, name |-> "Air Temperature", format |-> "UTC"],
     [site |-> <<"Place">>, name |-> "Soil Moisture", format |-> "Local"]}

\* the sample measurements of at most n lines
Measurements(n) ==
    {Measurement(hd.site, hd.name, hd.format, v) :
        hd \in Headers, v \in SeqsUpTo(SampleLines, n)}

RECURSIVE MeasurementLists(_)
\* all lists of sample measurements whose measurements plus lines number at most n
MeasurementLists(n) ==
    IF n <= 0 THEN {<< >>}
    ELSE {<< >>} \cup
         UNION {{<<m>> \o rest : rest \in MeasurementLists(n - 1 - Len(m.Data.Value))} :
                m \in Measurements(n - 1)}

\* -site Place=PLACE_CODE -site Lake=LAKE
PlaceArg == <<"Place", EQ, "PLACE_CODE">>
LakeArg == <<"Lake", EQ, "LAKE">>
SampleSites == Set(Set(NewHilltopSites, PlaceArg).Sites, LakeArg).Sites

\* the lexemes of -site arguments
FlagAlphabet == {"Place", "NZ", EQ}

\* the sample files: unreadable, not XML, and five documents
ReadmeDoc == Document(<<Measurement(<<"Place">>, "Air Temperature", "UTC", <<ReadmeLine>>)>>)
TwoByTwoDoc ==
    Document(<<Measurement(<<"Place">>, "Air Temperature", "UTC", <<ReadmeLine, SecondLine>>),
               Measurement(<<"Lake">>, "Rainfall", "Local", <<SecondLine, ReadmeLine>>)>>)
BrokenDoc ==
    Document(<<Measurement(<<"Place">>, "Air Temperature", "UTC", <<ReadmeLine>>),
               Measurement(<<"Place">>, "Rainfall", "UTC", <<SecondLine, BadNumberLine>>)>>)
UnknownDoc ==
    Document(<<Measurement(<<"Nowhere">>, "Air Temperature", "UTC", <<BadDateLine>>),
               Measurement(<<"Lake">>, "Rainfall", "UTC", <<SecondLine>>)>>)
SampleFiles ==
    {[kind |-> "missing"], [kind |-> "malformed"]} \cup
    {[kind |-> "xml", doc |-> d] :
        d \in {Document(<< >>), ReadmeDoc, TwoByTwoDoc, BrokenDoc, UnknownDoc}}

----------------------------------------------------------------------------
(* Specifications.                                                         *)

\* main on a command line of sample files
Init ==
    /\ pc = "flags"
    /\ \E mn \in {<<"M", "NT">>, <<"", "NT">>, <<"M", "">>} :
          method = mn[1] /\ network = mn[2]
    /\ dryrun \in BOOLEAN
    /\ region \in {"", "ap-southeast-2"}
    /\ queue \in {"", "fits"}
    /\ Q = NilQueue
    /\ siteArgs \in {<< >>, <<PlaceArg>>, <<PlaceArg, LakeArg>>, <<PlaceArg, <<"Lake">> >>}
    /\ sites = NewHilltopSites
    /\ files \in SeqsUpTo(SampleFiles, MaxFiles)
    /\ fi = 0
    /\ h = NilHilltop
    /\ obs = << >>
    /\ err = nil
    /\ oi = 0
    /\ sent = << >>
    /\ tz = 0
    /\ meas = Measurement(Empty, "", "", << >>)
    /\ ret = [values |-> << >>, err |-> nil]

Spec == Init /\ [][Next]_vars

\* main on every list of -site arguments, before one sample file
InitSites ==
    /\ pc = "flags"
    /\ method = "M"
    /\ network = "NT"
    /\ dryrun \in BOOLEAN
    /\ region = "ap-southeast-2"
    /\ queue = "fits"
    /\ Q = NilQueue
    /\ siteArgs \in TextLists(FlagAlphabet, MaxFlagSize)
    /\ sites = NewHilltopSites
    /\ files = <<[kind |-> "xml", doc |-> ReadmeDoc]>>
    /\ fi = 0
    /\ h = NilHilltop
    /\ obs = << >>
    /\ err = nil
    /\ oi = 0
    /\ sent = << >>
    /\ tz = 0
    /\ meas = Measurement(Empty, "", "", << >>)
    /\ ret = [values |-> << >>, err |-> nil]

SpecSites == InitSites /\ [][Next]_vars

\* idle values of the variables of main in the runs of one function
IdleMain ==
    /\ dryrun = TRUE
    /\ region = ""
    /\ queue = ""
    /\ Q = NilQueue
    /\ siteArgs = << >>
    /\ files = << >>
    /\ fi = 0
    /\ oi = 0
    /\ sent = << >>

\* Values on every value list over the line alphabet
InitValues ==
    /\ pc = "Values"
    /\ IdleMain
    /\ method = "M"
    /\ network = "NT"
    /\ sites = NewHilltopSites
    /\ h = NilHilltop
    /\ obs = << >>
    /\ err = nil
    /\ tz = 0
    /\ meas \in {Measurement(<<"Place">>, "Air Temperature", "UTC", v) :
                    v \in TextLists(LineAlphabet, MaxValueSize)}
    /\ ret = [values |-> << >>, err |-> nil]

SpecValues == InitValues /\ [][NextValues]_vars

\* offsets of the host's local zone: UTC, New Zealand, New York
LocalOffsets == {0, 12 * 3600, -5 * 3600}

\* Values on the sample measurements, on hosts in several zones
InitZone ==
    /\ pc = "Values"
    /\ IdleMain
    /\ method = "M"
    /\ network = "NT"
    /\ sites = NewHilltopSites
    /\ h = NilHilltop
    /\ obs = << >>
    /\ err = nil
    /\ tz \in LocalOffsets
    /\ meas \in Measurements(MaxDocSize - 1)
    /\ ret = [values |-> << >>, err |-> nil]

SpecZone == InitZone /\ [][NextValues]_vars

\* Observations on every document of sample measurements
InitObservations ==
    /\ pc = "Observations"
    /\ IdleMain
    /\ method = "M"
    /\ network = "NT"
    /\ sites \in {NewHilltopSites, SampleSites}
    /\ h \in {Document(ms) : ms \in MeasurementLists(MaxDocSize)}
    /\ obs = << >>
    /\ err = nil
    /\ tz = 0
    /\ meas = Measurement(Empty, "", "", << >>)
    /\ ret = [values |-> << >>, err |-> nil]

SpecObservations == InitObservations /\ [][NextObservations]_vars

----------------------------------------------------------------------------
(* What the claims are stated with.                                        *)

\* the lines of the samples that hold a date-time and a number, and what
\* they write down: seconds since 1970-01-01T00:00:00 and thousandths
Readable(l) == l \in {ReadmeLine, SecondLine}
WrittenSeconds(l) == IF l = ReadmeLine THEN 1432762200 ELSE 1432762800
WrittenReading(l) == IF l = ReadmeLine THEN 2300 ELSE 2500

\* m's site and data source are keys of the two tables
Mapped(m) ==
    m.SiteName \in DOMAIN sites /\ m.DataSource.Name \in DOMAIN HilltopUnits

\* a line with an unparseable date or number
Unparseable(l) == l \in {BadNumberLine, BadDateLine}

ObservationsReturned == pc = "Observations returned"
ValuesReturned == pc = "Values returned"

RECURSIVE SumLines(_)
\* the number of value lines of a list of measurements
SumLines(ms) ==
    IF ms = << >> THEN 0 ELSE Len(Head(ms).Data.Value) + SumLines(Tail(ms))

----------------------------------------------------------------------------
\* C1: a measurement whose site or data source is unmapped yields no
\* observation and no error, whatever its lines hold, and the measurements
\* after it are still processed: the call returns what it returns for the
\* document without the unmapped measurements, at most one observation per
\* line of a mapped measurement, and nothing at all (and no error) when no
\* measurement is mapped.
C1_UnmappedSkipped ==
    ObservationsReturned =>
        LET known == SelectSeq(h.Measurement, Mapped) IN
        /\ [msgs |-> obs, err |-> err] =
               Observations(Document(known), sites, network, method)
        /\ Len(obs) <= SumLines(known)
        /\ (known = << >> => obs = << >> /\ err = nil)

\* an unmapped measurement with an unparseable line, and after it a mapped
\* measurement whose observation is returned
C1_Witness ==
    /\ ObservationsReturned
    /\ Len(h.Measurement) = 2
    /\ ~Mapped(h.Measurement[1])
    /\ \E i \in 1..Len(h.Measurement[1].Data.Value) :
           Unparseable(h.Measurement[1].Data.Value[i])
    /\ Mapped(h.Measurement[2])
    /\ Len(obs) = 1
    /\ err = nil

----------------------------------------------------------------------------
\* the observation that line l of measurement m stands for
Written(m, l) ==
    [NetworkID |-> network, SiteID |-> sites[m.SiteName],
     TypeID |-> HilltopUnits[m.DataSource.Name], MethodID |-> method,
     DateTime |-> [unix |-> WrittenSeconds(l), loc |-> "UTC"],
     Value |-> WrittenReading(l), Error |-> 0]

\* every measurement of h is mapped and has count lines, all of them readable
Uniform(count) ==
    \A i \in 1..Len(h.Measurement) :
        /\ Mapped(h.Measurement[i])
        /\ Len(h.Measurement[i].Data.Value) = count
        /\ \A j \in 1..count : Readable(h.Measurement[i].Data.Value[j])

C3_ErrorReturnsNoObservations ==
    ObservationsReturned /\ err # nil => obs = << >>

\* C3, weaker: such a line makes Observations return an error
C3_ErrorReturned ==
    ObservationsReturned
    /\ (\E i \in 1..Len(h.Measurement) :
            /\ Mapped(h.Measurement[i])
            /\ \E j \in 1..Len(h.Measurement[i].Data.Value) :
                   Unparseable(h.Measurement[i].Data.Value[j]))
    => err # nil

\* C7: every observation carries the table values of the site and data
\* source of a mapped measurement of the document, never the source's names,
\* the given network and method, and Error 0.
C7_ObservationsUseMappedIds ==
    ObservationsReturned =>
        \A k \in 1..Len(obs) :
            /\ \E i \in 1..Len(h.Measurement) :
                   /\ Mapped(h.Measurement[i])
                   /\ obs[k].SiteID = sites[h.Measurement[i].SiteName]
                   /\ obs[k].TypeID = HilltopUnits[h.Measurement[i].DataSource.Name]
            /\ obs[k].SiteID \notin {h.Measurement[i].SiteName : i \in 1..Len(h.Measurement)}
            /\ obs[k].TypeID \notin {h.Measurement[i].DataSource.Name : i \in 1..Len(h.Measurement)}
            /\ obs[k].NetworkID = network
            /\ obs[k].MethodID = method
            /\ obs[k].Error = 0

\* observations returned from a document that also holds an unmapped
\* measurement with a readable line
C7_Witness ==
    /\ ObservationsReturned
    /\ obs # << >>
    /\ err = nil
    /\ \E i \in 1..Len(h.Measurement) :
           /\ ~Mapped(h.Measurement[i])
           /\ \E j \in 1..Len(h.Measurement[i].Data.Value) :
                  Readable(h.Measurement[i].Data.Value[j])

----------------------------------------------------------------------------
Whitespace == {SP, TAB}

\* the number of whitespace-separated tokens of a line
Tokens(l) ==
    Cardinality({i \in 1..Len(l) :
        l[i] \notin Whitespace /\ (i = 1 \/ l[i - 1] \in Whitespace)})

\* the number of parts of a line: one more than it holds spaces after its
\* leading spaces
Parts(l) ==
    Cardinality({i \in 1..Len(l) :
        l[i] = SP /\ \E j \in 1..(i - 1) : l[j] # SP}) + 1

\* the lines of meas
Lines == meas.Data.Value

ReadableLines == SelectSeq(Lines, Readable)

\* C6: the readings carry the written date-time read as UTC when DateFormat
\* is "UTC", whatever the host's zone, and read in the host's local zone
\* (the UTC reading less the zone's offset) for every other DateFormat.
C6_ZoneByDateFormat ==
    ValuesReturned /\ ret.err = nil =>
        /\ Len(ret.values) = Len(ReadableLines)
        /\ \A k \in 1..Len(ret.values) :
               ret.values[k].Timestamp.unix =
                   IF meas.Data.DateFormat = "UTC"
                   THEN WrittenSeconds(ReadableLines[k])
                   ELSE WrittenSeconds(ReadableLines[k]) - tz

\* C6, the half about "UTC"
C6_UTCIndependentOfHost ==
    ValuesReturned /\ ret.err = nil /\ meas.Data.DateFormat = "UTC" =>
        /\ Len(ret.values) = Len(ReadableLines)
        /\ \A k \in 1..Len(ret.values) :
               ret.values[k].Timestamp.unix = WrittenSeconds(ReadableLines[k])

----------------------------------------------------------------------------
\* the file at index f of the command line failed to open or to decode
DecodeFails(f) == files[f].kind \in {"missing", "malformed"}

\* C4: a file that cannot be opened (or decoded) makes DecodeHilltopFile
\* return an error, which ends main; the decoder never reports success
\* without a document, so main never assembles observations from a nil one.
C4_OpenFailureIsAnError ==
    /\ fi >= 1 /\ DecodeFails(fi) => pc = Fatal /\ err # nil
    /\ pc = "observe" => h # NilHilltop
    /\ pc # PanicNilHilltop

\* C4, the half that holds: markup that does not parse ends main with an error
C4_MalformedIsAnError ==
    fi >= 1 /\ files[fi].kind = "malformed" => pc = Fatal /\ err # nil

\* main is in or past its loop over the files
Processing == pc \in {"loop", "observe", "send", "done"} \/ fi >= 1

\* C8: under -dry-run nothing is sent and the queue is neither set up nor
\* used; otherwise the queue exists before the first file is processed and
\* whenever a message has been sent.
C8_DryRunSendsNothing ==
    /\ dryrun => sent = << >> /\ Q.isNil
    /\ ~dryrun /\ Processing => ~Q.isNil
    /\ sent # << >> => ~Q.isNil
    /\ pc # PanicNilQueue

\* under -dry-run, an observation has gone through the turn of the loop
\* that would send it
C8_Witness ==
    /\ dryrun
    /\ pc = "send"
    /\ oi > 1
    /\ obs # << >>
    /\ sent = << >>

\* the file at index f decodes and its whole document assembles without error
FileOK(f) ==
    LET d == DecodeHilltopFile(files[f]) IN
    /\ d.err = nil
    /\ d.h # NilHilltop
    /\ Observations(d.h, sites, network, method).err = nil

\* the observations of the file at index f
FileObservations(f) ==
    IF DecodeHilltopFile(files[f]).h = NilHilltop THEN << >>
    ELSE Observations(DecodeHilltopFile(files[f]).h, sites, network, method).msgs

\* the number of messages of file f among the first k sent
CountOf(f, k) == Cardinality({j \in 1..k : sent[j].file = f})

\* what C9 says of one state
AllOrNothing ==
    /\ \A k \in 1..Len(sent) :
           /\ sent[k].file \in 1..fi
           /\ \A g \in 1..sent[k].file : FileOK(g)
           /\ CountOf(sent[k].file, k) <= Len(FileObservations(sent[k].file))
           /\ sent[k].body =
                  Encode(FileObservations(sent[k].file)[CountOf(sent[k].file, k)])
    /\ \A k \in 1..(Len(sent) - 1) : sent[k].file <= sent[k + 1].file
    /\ pc = "observe" => \A k \in 1..Len(sent) : sent[k].file < fi
    /\ pc = "send" => FileOK(fi) /\ obs = FileObservations(fi)
    /\ fi >= 1 /\ pc # "observe" /\ ~FileOK(fi) => pc \in {Fatal, PanicNilHilltop}

\* sent only grows at its end
SentKept == Len(sent') >= Len(sent) /\ SubSeq(sent', 1, Len(sent)) = sent

\* C9: every message sent comes, in order, from the observations of a file
\* that decoded and assembled without error, as did every file before it;
\* nothing of a file is sent before its assembly returns; a file that fails
\* ends main with none of its messages sent; and what was sent stays sent.
C9_AllOrNothing == []AllOrNothing /\ [][SentKept]_vars

\* the second file failed in assembly after observations were gathered from
\* it, and only the messages of the first file have been sent
C9_Witness ==
    /\ pc = Fatal
    /\ fi = 2
    /\ FileOK(1)
    /\ ~FileOK(2)
    /\ ~DecodeFails(2)
    /\ obs # << >>
    /\ sent # << >>
    /\ \A k \in 1..Len(sent) : sent[k].file = 1

\* the first "=" of a -site argument
FirstEq(arg) == CHOOSE i \in 1..Len(arg) : arg[i] = EQ /\ \A j \in 1..(i - 1) : arg[j] # EQ

\* what C10 says of one step
SetStep ==
    IF pc = "flags" /\ siteArgs # << >>
    THEN LET arg == Head(siteArgs) IN
         IF \A i \in 1..Len(arg) : arg[i] # EQ
         THEN sites' = sites /\ err' # nil /\ pc' = FlagExit
         ELSE LET label == SubSeq(arg, 1, FirstEq(arg) - 1)
                  code == SubSeq(arg, FirstEq(arg) + 1, Len(arg))
              IN  /\ err' = nil
                  /\ DOMAIN sites' = (DOMAIN sites) \cup {label}
                  /\ sites'[label] = code
                  /\ \A x \in (DOMAIN sites) \ {label} : sites'[x] = sites[x]
    ELSE sites' = sites

\* C10: Set maps the text before the first "=" of its argument to all the
\* text after it, replacing an earlier code of the same label and leaving
\* the other labels alone; an argument without "=" is an error that leaves
\* the table as it was; and no later step of main changes the table.
C10_SetSplitsAtFirstEq == [][SetStep]_vars

\* "Place=NZ=NZ" has mapped Place to "NZ=NZ", and main has processed a file
C10_Witness ==
    /\ pc = "done"
    /\ fi = 1
    /\ DOMAIN sites = {<<"Place">>}
    /\ sites[<<"Place">>] = <<"NZ", EQ, "NZ">>

\* a second -site argument has replaced the code of the label of the first
C10_Replaced ==
    /\ pc = "setup"
    /\ DOMAIN sites = {<<"Place">>}
    /\ sites[<<"Place">>] = <<"NZ">>
    /\ err = nil

============================================================================
